---- MODULE Spec2Model ----
(***************************************************************************)
(* A model of the WebSocket connection of package websocket: the message  *)
(* writer (NextWriter / Write / Close / WriteMessage / WriteControl) and   *)
(* the message reader (ReadMessage with its control-frame dispatch), over  *)
(* a byte-level wire between a client-role and a server-role end.          *)
(***************************************************************************)
EXTENDS Integers, Sequences, FiniteSets, TLC

(***************************************************************************)
(* Program constants                                                       *)
(***************************************************************************)
finBit == 128
rsv1Bit == 64
rsv2Bit == 32
rsv3Bit == 16
maskBit == 128
maxHeaderSize == 14
maxPayloadDate == 125
defaultReaderSize == 1024
defaultWriterSize == 1024
noFrame == -1

ContMessage == 0
TextMessage == 1
BinaryMessage == 2
CloseMessage == 8
PingMessage == 9
PongMessage == 10

CloseNormalClosure == 1000
CloseGoingAway == 1001
CloseProtocolError == 1002
CloseUnsupportedData == 1003
CloseNoStatusReceived == 1005
CloseAbnormalClosure == 1006
CloseInvalidFramePayloadData == 1007
ClosePolicyViolation == 1008
CloseMessageTooBig == 1009
CloseMandatoryExtension == 1010
CloseInternalServerErr == 1011
CloseServiceRestart == 1012
CloseTryAgainLater == 1013
CloseTLSHandshake == 1015

(***************************************************************************)
(* Bounds of the model                                                     *)
(***************************************************************************)
\* longest application payload: more than two full frames of the writer
BigLen == 2100
\* number of writers NextWriter may hand out on one connection
MaxWriters == 3
\* number of Write calls on one connection
MaxWrites == 2
\* number of WriteMessage / WriteControl calls on one connection
MaxMsgs == 1
\* number of frames the peer may put on the wire by hand
MaxPeerFrames == 3
\* number of ReadMessage calls on one connection
MaxReads == 2

(***************************************************************************)
(* Bytes and strings                                                       *)
(***************************************************************************)
Byte == 0..255

\* the ^ of two bits, given the two bytes shifted down to them
XorBit(a, b) == ((a % 2) + (b % 2)) % 2

\* the ^ of two bytes
XorBytes(a, b) ==
  XorBit(a, b) + 2 * XorBit(a \div 2, b \div 2)
  + 4 * XorBit(a \div 4, b \div 4) + 8 * XorBit(a \div 8, b \div 8)
  + 16 * XorBit(a \div 16, b \div 16) + 32 * XorBit(a \div 32, b \div 32)
  + 64 * XorBit(a \div 64, b \div 64) + 128 * XorBit(a \div 128, b \div 128)

\* generateMask: four random bytes; the model draws them from this set
MaskKeys == { << 55, 250, 33, 61 >>, << 1, 2, 4, 8 >> }

\* the same ^, tabulated for the bytes that occur in mask keys
KeyBytes == UNION {{k[i] : i \in 1..4} : k \in MaskKeys}
XorTable == [b \in KeyBytes |-> [a \in Byte |-> XorBytes(a, b)]]
Xor(a, b) == IF b \in KeyBytes THEN XorTable[b][a] ELSE XorBytes(a, b)

\* the | of a byte with a single-bit constant
OrBit(a, bit) == IF (a \div bit) % 2 = 1 THEN a ELSE a + bit

\* the & of a byte with a single-bit constant, as a truth value
HasBit(a, bit) == (a \div bit) % 2 = 1

\* binary.BigEndian.PutUint16
PutUint16(v) == << (v \div 256) % 256, v % 256 >>

\* binary.BigEndian.PutUint64 of a slice length; the lengths of the model are
\* below 2^31, so the upper four bytes are zero
PutUint64(v) ==
  << 0, 0, 0, 0, (v \div 16777216) % 256, (v \div 65536) % 256,
     (v \div 256) % 256, v % 256 >>

\* binary.BigEndian.Uint16
Uint16(p) == p[1] * 256 + p[2]

\* binary.BigEndian.Uint64 converted to int64: negative when the top bit is
\* set; a value of 2^31 or more is longer than every stream of the model and
\* is kept as Huge
Huge == 2147483647
Uint64(p) ==
  IF p[1] >= 128 THEN -1
  ELSE IF p[1] # 0 \/ p[2] # 0 \/ p[3] # 0 \/ p[4] # 0 \/ p[5] >= 128 THEN Huge
  ELSE ((p[5] * 256 + p[6]) * 256 + p[7]) * 256 + p[8]

\* strconv.Itoa for the opcodes 0..15
Itoa(n) == IF n < 10 THEN << 48 + n >> ELSE << 49, 48 + (n - 10) >>

\* the texts of the program, as bytes
sWebsocket == << 119, 101, 98, 115, 111, 99, 107, 101, 116, 58, 32 >>
sRSV == << 82, 83, 86, 32, 98, 105, 116, 115, 32, 115, 101, 116 >>
sLen == << 108, 101, 110, 32, 62, 32, 49, 50, 53, 32, 102, 111, 114, 32,
           99, 111, 110, 116, 114, 111, 108 >>
sFin == << 70, 73, 78, 32, 110, 111, 116, 32, 115, 101, 116, 32, 111, 110,
           32, 99, 111, 110, 116, 114, 111, 108 >>
sData == << 100, 97, 116, 97, 32, 98, 101, 102, 111, 114, 101, 32, 70, 73,
            78 >>
sCont == << 99, 111, 110, 116, 105, 110, 117, 97, 116, 105, 111, 110, 32,
            97, 102, 116, 101, 114, 32, 70, 73, 78 >>
sBadOpcode == << 98, 97, 100, 32, 111, 112, 99, 111, 100, 101, 32 >>
sBadCloseCode == << 98, 97, 100, 32, 99, 108, 111, 115, 101, 32, 99, 111,
                    100, 101 >>
sUnexpectedEOF == << 117, 110, 101, 120, 112, 101, 99, 116, 101, 100, 32,
                     69, 79, 70 >>

\* strings.Join(errors, ",")
RECURSIVE Join(_)
Join(ss) ==
  IF Len(ss) = 0 THEN << >>
  ELSE IF Len(ss) = 1 THEN ss[1]
  ELSE ss[1] \o << 44 >> \o Join(Tail(ss))

(***************************************************************************)
(* Errors                                                                  *)
(***************************************************************************)
NilError == [kind |-> "nil", code |-> 0, text |-> << >>]

\* &CloseError{Code: code, Text: text}
CloseError(code, text) == [kind |-> "CloseError", code |-> code, text |-> text]

errUnexpectedEOF == CloseError(CloseAbnormalClosure, sUnexpectedEOF)

\* errors.New("bad MASK")
errBadMask == [kind |-> "bad MASK", code |-> 0, text |-> << >>]

\* errors.New("websocket: " + message)
ProtocolError(message) ==
  [kind |-> "protocol", code |-> 0, text |-> sWebsocket \o message]

\* errors.New("unclosed previous writer")
errUnclosedWriter == [kind |-> "unclosed previous writer", code |-> 0, text |-> << >>]

errBadMessageCode == [kind |-> "bad message code", code |-> 0, text |-> << >>]

(***************************************************************************)
(* The two ends of one connection                                          *)
(***************************************************************************)
Ends == {"client", "server"}
Peer(e) == IF e = "client" THEN "server" ELSE "client"

\* c.isServer of the Conn built over end e (newConn's second argument)
isServer(e) == e = "server"

\* the masks of the successive frames of one call: neighbours differ
NumKeys == 2
KeySeqs ==
  {k \in [1..NumKeys -> MaskKeys] : \A i \in 1..(NumKeys - 1) : k[i] # k[i + 1]}
\* the masks a call at end e may draw: a server-role Conn draws none
KeysOf(e) == IF isServer(e) THEN {[i \in 1..NumKeys |-> << 0, 0, 0, 0 >>]} ELSE KeySeqs
KeyAt(keys, i) == keys[((i - 1) % NumKeys) + 1]

\* an application payload of n bytes
Payload(n, seed) == [i \in 1..n |-> (seed + 29 * i) % 256]

isControl(mt) == mt >= CloseMessage /\ mt <= PongMessage

(***************************************************************************)
(* bufio.Writer of a msgWriter: bw is the buffered bytes, conn the bytes   *)
(* the operation has handed to c.conn so far                               *)
(***************************************************************************)
WriterBufSize == maxHeaderSize + defaultWriterSize

bwAvailable(w) == WriterBufSize - Len(w.bw)

bwFlush(w) == [w EXCEPT !.conn = @ \o w.bw, !.bw = << >>]

bwWriteByte(w, c) ==
  LET s == IF bwAvailable(w) <= 0 THEN bwFlush(w) ELSE w
  IN [s EXCEPT !.bw = Append(@, c)]

RECURSIVE bwWrite(_, _)
bwWrite(w, p) ==
  IF Len(p) > bwAvailable(w)
  THEN IF Len(w.bw) = 0
       THEN bwWrite([w EXCEPT !.conn = @ \o p], << >>)
       ELSE LET n == bwAvailable(w)
            IN bwWrite(bwFlush([w EXCEPT !.bw = @ \o SubSeq(p, 1, n)]),
                       SubSeq(p, n + 1, Len(p)))
  ELSE [w EXCEPT !.bw = @ \o p]

(***************************************************************************)
(* msgWriter                                                               *)
(***************************************************************************)
\* &msgWriter{c: c, bw: bw, mt: mt}; closed records that Close was called,
\* sent the first byte (FIN, RSV, opcode) of each frame that the Write calls
\* on it have emitted
NewWriter(mt) ==
  [bw |-> << >>, conn |-> << >>, fin |-> FALSE, mt |-> mt, ft |-> 0,
   closed |-> FALSE, sent |-> << >>]

ncopy(w, max) ==
  LET a0 == bwAvailable(w) - maxHeaderSize
      w1 == IF a0 <= 0 THEN bwFlush(w) ELSE w
      a1 == IF a0 <= 0 THEN bwAvailable(w1) - maxHeaderSize ELSE a0
      a2 == IF a1 < 126 - 8 THEN a1 + 8
            ELSE IF a1 < 65536 - 6 THEN a1 + 6 ELSE a1
  IN IF a2 >= max
     THEN [w |-> [w1 EXCEPT !.fin = TRUE], n |-> max]
     ELSE [w |-> w1, n |-> a2]

\* MaskBytes with the key index off by one byte
MaskBytesShifted(payload, key) ==
  [i \in 1..Len(payload) |-> Xor(payload[i], key[(i % 4) + 1])]

\* payload[i] ^= mask[i%4]
MaskBytes(payload, key) ==
  [i \in 1..Len(payload) |-> Xor(payload[i], key[((i - 1) % 4) + 1])]

\* LengthBytes with the 16-bit encoding starting one byte late
LengthBytesLate(b1, length) ==
  IF length >= 65536 THEN << b1 + 127 >> \o PutUint64(length)
  ELSE IF length > 126 THEN << b1 + 126 >> \o PutUint16(length)
  ELSE << b1 + length >>

\* LengthBytes using the 16-bit encoding for every payload that is not empty
LengthBytesWide(b1, length) ==
  IF length >= 65536 THEN << b1 + 127 >> \o PutUint64(length)
  ELSE IF length > 0 THEN << b1 + 126 >> \o PutUint16(length)
  ELSE << b1 + length >>

\* the frame header's second byte and extended length
LengthBytes(b1, length) ==
  IF length >= 65536 THEN << b1 + 127 >> \o PutUint64(length)
  ELSE IF length > 125 THEN << b1 + 126 >> \o PutUint16(length)
  ELSE << b1 + length >>

writeFrame(w, payload, srv, key) ==
  LET b0 == IF w.fin THEN OrBit(w.ft % 256, finBit) ELSE w.ft % 256
      b1 == IF ~srv THEN maskBit ELSE 0
      w1 == bwWriteByte(w, b0)
      lb == LengthBytes(b1, Len(payload))
      w2 == bwWriteByte(w1, lb[1])
      w3 == IF Len(lb) > 1 THEN bwWrite(w2, Tail(lb)) ELSE w2
      w4 == IF ~srv THEN bwWrite(w3, key) ELSE w3
      pl == IF ~srv THEN MaskBytes(payload, key) ELSE payload
  IN bwWrite(w4, pl)

RECURSIVE WriteLoop(_, _, _, _, _)
WriteLoop(w, p, srv, keys, i) ==
  LET nc == ncopy(w, Len(p))
      w2 == writeFrame(nc.w, SubSeq(p, 1, nc.n), srv, KeyAt(keys, i))
      rest == SubSeq(p, nc.n + 1, Len(p))
      w3 == [w2 EXCEPT !.ft = ContMessage]
  IN IF Len(rest) = 0 THEN w3 ELSE WriteLoop(w3, rest, srv, keys, i + 1)

\* (w *msgWriter) Write(p)
msgWrite(w, p, srv, keys) ==
  [WriteLoop([w EXCEPT !.ft = w.mt], p, srv, keys, 1) EXCEPT !.fin = FALSE]

\* (w *msgWriter) Close(): the flush; the slot is released by the action
msgClose(w) == [bwFlush(w) EXCEPT !.closed = TRUE]

\* the bytes WriteControl hands to c.conn.Write
ControlFrame(mt, msg, srv, key) ==
  LET b0 == OrBit(mt % 256, finBit)
      l == Len(msg) % 256
      b1 == IF ~srv THEN OrBit(l, maskBit) ELSE l
  IN IF ~srv THEN << b0, b1 >> \o key \o MaskBytes(msg, key)
     ELSE << b0, b1 >> \o msg

\* FormatCloseMessage without the reason text
FormatCloseMessageNoText(code, msg) ==
  IF code = CloseNoStatusReceived THEN << >> ELSE PutUint16(code % 65536)

FormatCloseMessage(code, msg) ==
  IF code = CloseNoStatusReceived THEN << >>
  ELSE PutUint16(code % 65536) \o msg

(***************************************************************************)
(* State                                                                   *)
(***************************************************************************)
VARIABLES
  conns,    \* conns[e]: a Conn was built over end e (newConn); the other
            \* end is then driven by its own Conn or by a hand-written peer
  inp,      \* inp[e]: the bytes end e can still read (c.br and the socket)
  eof,      \* eof[e]: the stream towards e has ended after inp[e]
  writer,   \* writer[e]: c.writer, the index of a msgWriter, 0 for nil
  writers,  \* writers[e]: the msgWriters NextWriter returned, in order
  rd,       \* rd[e]: the position and locals of ReadMessage
  results,  \* results[e]: what the ReadMessage calls returned, in order
  wrote,    \* wrote[e]: the messages WriteMessage sent at e, in order
  nops,     \* nops[e]: numbers of calls made so far, to bound the model
  failed,   \* failed[e]: reads of the stream towards e fail with an error
            \* that is not io.EOF (the connection was closed at e)
  hs,       \* the opening handshake of Dial: what was sent, read, returned
  last      \* the last call or step: its arguments and its effects

vars ==
  << conns, inp, eof, writer, writers, rd, results, wrote, nops, failed, hs,
     last >>

\* ReadMessage not running; when it runs, inb and outb are the bytes the call
\* has read and written so far
Idle ==
  [pc |-> "idle", msg |-> << >>, messageType |-> noFrame, first |-> TRUE,
   inb |-> << >>, outb |-> << >>]

NoOps == [writes |-> 0, msgs |-> 0, peer |-> 0, reads |-> 0]

\* a record of one call or step
Call(op, e, mt, p, inb, outb, err, returned) ==
  [op |-> op, e |-> e, mt |-> mt, p |-> p, inb |-> inb, outb |-> outb,
   err |-> err, returned |-> returned]

\* Dial was not called
NoHandshake == [st |-> "none"]

NoCall == Call("none", "client", noFrame, << >>, << >>, << >>, NilError, FALSE)

InitWith(cs) ==
  /\ conns = [e \in Ends |-> e \in cs]
  /\ inp = [e \in Ends |-> << >>]
  /\ eof = [e \in Ends |-> FALSE]
  /\ failed = [e \in Ends |-> FALSE]
  /\ hs = NoHandshake
  /\ writer = [e \in Ends |-> 0]
  /\ writers = [e \in Ends |-> << >>]
  /\ rd = [e \in Ends |-> Idle]
  /\ results = [e \in Ends |-> << >>]
  /\ wrote = [e \in Ends |-> << >>]
  /\ nops = [e \in Ends |-> NoOps]
  /\ last = NoCall

\* c.conn.Write(b) at end e: the bytes reach the input of the peer's Conn; a
\* hand-written peer only sees them go by (they are in last.outb)
ConnWrite(e, b) ==
  inp' = [inp EXCEPT ![Peer(e)] = IF conns[Peer(e)] THEN @ \o b ELSE @]

(***************************************************************************)
(* The write methods                                                       *)
(***************************************************************************)
\* the first byte of each frame among the bytes b that writeFrame produced:
\* b0, then b1 with the length, the extended length, the mask key, the payload
RECURSIVE FirstBytes(_)
FirstBytes(b) ==
  IF Len(b) < 2 THEN << >>
  ELSE LET l == b[2] % 128
           n == IF l = 126 THEN Uint16(SubSeq(b, 3, 4))
                ELSE IF l = 127 THEN Uint64(SubSeq(b, 3, 10)) ELSE l
           size == 2 + (IF l = 126 THEN 2 ELSE IF l = 127 THEN 8 ELSE 0)
                   + (IF b[2] >= 128 THEN 4 ELSE 0) + n
       IN << b[1] >> \o FirstBytes(SubSeq(b, size + 1, Len(b)))

\* the opcodes and payloads the application writes with
AppTypes == {TextMessage, BinaryMessage}
AppLens == {0, 126, 1031}
AppPayloads == {Payload(n, 7) : n \in AppLens}

\* what one Write call appended to the writer's frame stream (flushed bytes
\* followed by buffered bytes), given the buffer before the call
Appended(before, w) ==
  SubSeq(w.conn \o w.bw, Len(before) + 1, Len(w.conn) + Len(w.bw))

unstage(w) == [w EXCEPT !.conn = << >>]

NextWriter(e, mt) ==
  /\ conns[e]
  /\ Len(writers[e]) < MaxWriters
  /\ IF writer[e] # 0
     THEN /\ last' = Call("NextWriter", e, mt, << >>, << >>, << >>,
                          errUnclosedWriter, TRUE)
          /\ UNCHANGED << writer, writers >>
     ELSE /\ writers' = [writers EXCEPT ![e] = Append(@, NewWriter(mt))]
          /\ writer' = [writer EXCEPT ![e] = Len(writers[e]) + 1]
          /\ last' = Call("NextWriter", e, mt, << >>, << >>, << >>,
                          NilError, TRUE)
  /\ UNCHANGED << hs, failed, conns, inp, eof, rd, results, nops, wrote >>

Write(e, i, p, keys) ==
  /\ conns[e]
  /\ i \in 1..Len(writers[e])
  /\ ~writers[e][i].closed
  /\ nops[e].writes < MaxWrites
  /\ LET w == msgWrite(writers[e][i], p, isServer(e), keys)
     IN /\ writers' = [writers EXCEPT ![e][i] =
                          [unstage(w) EXCEPT
                             !.sent = @ \o FirstBytes(
                                        Appended(writers[e][i].bw, w))]]
        /\ ConnWrite(e, w.conn)
        /\ last' = Call("Write", e, writers[e][i].mt, p, << >>,
                        Appended(writers[e][i].bw, w), NilError, TRUE)
  /\ nops' = [nops EXCEPT ![e].writes = @ + 1]
  /\ UNCHANGED << hs, failed, conns, eof, writer, rd, results, wrote >>

\* Close of the i-th writer, also of one that was closed before
WriterClose(e, i) ==
  /\ conns[e]
  /\ i \in 1..Len(writers[e])
  /\ LET w == msgClose(writers[e][i])
     IN /\ writer' = [writer EXCEPT ![e] = 0]
        /\ writers' = [writers EXCEPT ![e][i] = unstage(w)]
        /\ ConnWrite(e, w.conn)
        /\ last' = Call("Close", e, writers[e][i].mt, << >>, << >>, w.conn,
                        NilError, TRUE)
  /\ UNCHANGED << hs, failed, conns, eof, rd, results, nops, wrote >>

\* the bytes a successful WriteMessage hands to c.conn
WriteMessageBytes(mt, msg, srv, keys) ==
  msgClose(msgWrite(NewWriter(mt), msg, srv, keys)).conn

WriteMessage(e, mt, msg, keys) ==
  /\ conns[e]
  /\ nops[e].msgs < MaxMsgs
  /\ IF writer[e] # 0
     THEN /\ last' = Call("WriteMessage", e, mt, msg, << >>, << >>,
                          errUnclosedWriter, TRUE)
          /\ UNCHANGED << inp, wrote >>
     ELSE LET b == WriteMessageBytes(mt, msg, isServer(e), keys)
          IN /\ ConnWrite(e, b)
             /\ wrote' = [wrote EXCEPT ![e] = Append(@, [mt |-> mt, p |-> msg])]
             /\ last' = Call("WriteMessage", e, mt, msg, << >>, b,
                             NilError, TRUE)
  /\ nops' = [nops EXCEPT ![e].msgs = @ + 1]
  /\ UNCHANGED << hs, failed, conns, eof, writer, writers, rd, results >>

WriteControl(e, mt, msg, key) ==
  /\ conns[e]
  /\ nops[e].msgs < MaxMsgs
  /\ IF ~isControl(mt)
     THEN /\ last' = Call("WriteControl", e, mt, msg, << >>, << >>,
                          errBadMessageCode, TRUE)
          /\ UNCHANGED inp
     ELSE LET b == ControlFrame(mt, msg, isServer(e), key)
          IN /\ ConnWrite(e, b)
             /\ last' = Call("WriteControl", e, mt, msg, << >>, b,
                             NilError, TRUE)
  /\ nops' = [nops EXCEPT ![e].msgs = @ + 1]
  /\ UNCHANGED << hs, failed, conns, eof, writer, writers, rd, results, wrote >>

(***************************************************************************)
(* The read methods                                                        *)
(***************************************************************************)
Drop(s, n) == SubSeq(s, n + 1, Len(s))

\* the condition of the stream towards e after the bytes of inp[e]: more may
\* come ("open"), it has ended ("eof"), or reading it fails ("err")
StreamEnd(e) ==
  IF failed[e] THEN "err" ELSE IF eof[e] THEN "eof" ELSE "open"

\* (c *Conn) read(n) on the unread input s; ended: the condition of the
\* stream after s.  Peek blocks until n bytes (at most a full buffer) are
\* there or the stream ends or fails; a request beyond the buffer size yields
\* what is buffered, with ErrBufferFull.  read reports io.EOF alone: with any
\* other error it returns the bytes Peek gave, fewer than n, and no error
read(s, n, ended) ==
  IF n > defaultReaderSize
  THEN IF Len(s) >= defaultReaderSize
       THEN [st |-> "ok", p |-> SubSeq(s, 1, defaultReaderSize)]
       ELSE IF ended # "open" THEN [st |-> "ok", p |-> s]
       ELSE [st |-> "block", p |-> << >>]
  ELSE IF Len(s) >= n THEN [st |-> "ok", p |-> SubSeq(s, 1, n)]
       ELSE IF ended = "eof" THEN [st |-> "eof", p |-> << >>]
       ELSE IF ended = "err" THEN [st |-> "ok", p |-> s]
       ELSE [st |-> "block", p |-> << >>]

\* the switch on length: the extended payload length
\* a slice shorter than the n bytes asked for makes binary.BigEndian panic
readLength(s, len7, ended) ==
  IF len7 = 126
  THEN LET r == read(s, 2, ended)
       IN IF r.st = "ok" /\ Len(r.p) < 2
          THEN [st |-> "panic", length |-> 0, rest |-> Drop(s, Len(r.p))]
          ELSE [st |-> r.st,
                length |-> IF r.st = "ok" THEN Uint16(r.p) ELSE 0,
                rest |-> IF r.st = "ok" THEN Drop(s, 2) ELSE s]
  ELSE IF len7 = 127
  THEN LET r == read(s, 8, ended)
       IN IF r.st = "ok" /\ Len(r.p) < 8
          THEN [st |-> "panic", length |-> 0, rest |-> Drop(s, Len(r.p))]
          ELSE [st |-> r.st,
                length |-> IF r.st = "ok" THEN Uint64(r.p) ELSE 0,
                rest |-> IF r.st = "ok" THEN Drop(s, 8) ELSE s]
  ELSE [st |-> "ok", length |-> len7, rest |-> s]

\* copy(maskKey[:], p): a short p leaves the last bytes of the key zero
readMaskKey(s, mask, ended) ==
  IF mask
  THEN LET r == read(s, 4, ended)
       IN [st |-> r.st,
           key |-> IF r.st = "ok"
                   THEN [i \in 1..4 |-> IF i <= Len(r.p) THEN r.p[i] ELSE 0]
                   ELSE << 0, 0, 0, 0 >>,
           rest |-> IF r.st = "ok" THEN Drop(s, Len(r.p)) ELSE s]
  ELSE [st |-> "ok", key |-> << 0, 0, 0, 0 >>, rest |-> s]

\* for length > 0 { p := c.read(int(length)); buf = append(buf, p...) };
\* "spin": read keeps returning no bytes and no error, the loop never ends;
\* "panic": an index out of range ends the goroutine
RECURSIVE readPayload(_, _, _, _)
readPayload(s, length, ended, buf) ==
  IF length <= 0 THEN [st |-> "ok", buf |-> buf, rest |-> s]
  ELSE LET r == read(s, length, ended)
       IN IF r.st # "ok" THEN [st |-> r.st, buf |-> buf, rest |-> s]
          ELSE IF Len(r.p) = 0 THEN [st |-> "spin", buf |-> buf, rest |-> s]
          ELSE readPayload(Drop(s, Len(r.p)), length - Len(r.p), ended,
                           buf \o r.p)

validReceivedCloseCodes ==
  { CloseNormalClosure, CloseGoingAway, CloseProtocolError,
    CloseUnsupportedData, CloseInvalidFramePayloadData, ClosePolicyViolation,
    CloseMessageTooBig, CloseMandatoryExtension, CloseInternalServerErr,
    CloseServiceRestart, CloseTryAgainLater }

isValidReceivedCloseCode(code) ==
  code \in validReceivedCloseCodes \/ (code >= 3000 /\ code <= 4999)

\* the bytes handleProtocolError puts on the wire: its WriteMessage fails in
\* NextWriter, and writes nothing, when the writer slot is taken
handleProtocolError(message, slotFree, srv, keys) ==
  IF slotFree
  THEN WriteMessageBytes(CloseMessage,
                         FormatCloseMessage(CloseProtocolError, message),
                         srv, keys)
  ELSE << >>

\* handleClose: the bytes of its WriteControl
handleClose(code, text, srv, key) ==
  ControlFrame(CloseMessage, FormatCloseMessage(code, text), srv, key)

\* handlePing answering with an empty pong
handlePingEmpty(payload, srv, key) == ControlFrame(PongMessage, << >>, srv, key)

\* handlePing: the bytes of its WriteControl
handlePing(payload, srv, key) == ControlFrame(PongMessage, payload, srv, key)

\* handleControl: the bytes written and the error returned (NilError: none)
handleControl(mt, payload, slotFree, srv, keys) ==
  IF mt = CloseMessage
  THEN IF Len(payload) >= 2 /\ ~isValidReceivedCloseCode(Uint16(payload))
       THEN [out |-> handleProtocolError(sBadCloseCode, slotFree, srv, keys),
             err |-> ProtocolError(sBadCloseCode)]
       ELSE LET code == IF Len(payload) >= 2 THEN Uint16(payload)
                        ELSE CloseNoStatusReceived
                text == IF Len(payload) >= 2 THEN Drop(payload, 2) ELSE << >>
            IN [out |-> handleClose(code, text, srv, KeyAt(keys, 1)),
                err |-> CloseError(code, text)]
  ELSE IF mt = PingMessage
  THEN [out |-> handlePing(payload, srv, KeyAt(keys, 1)), err |-> NilError]
  ELSE [out |-> << >>, err |-> NilError]

\* the checks of one frame header, in the order of the code
frameErrors(frameType, final, rsv, len7, first) ==
  (IF rsv THEN << sRSV >> ELSE << >>)
  \o (IF frameType \in {CloseMessage, PingMessage, PongMessage}
      THEN (IF len7 > maxPayloadDate THEN << sLen >> ELSE << >>)
           \o (IF ~final THEN << sFin >> ELSE << >>)
      ELSE IF frameType \in {TextMessage, BinaryMessage}
      THEN (IF ~first THEN << sData >> ELSE << >>)
      ELSE IF frameType = ContMessage
      THEN (IF first THEN << sCont >> ELSE << >>)
      ELSE << sBadOpcode \o Itoa(frameType) >>)

\* the mask check made by a server only
badMaskServerOnly(mask, srv) == srv /\ ~mask

\* if mask != c.isServer
badMask(mask, srv) == mask # srv

\* the message replaced by, instead of extended with, the frame's payload
appendMsgOverwrites(msg, buf) == buf

\* msg = append(msg, buf...)
appendMsg(msg, buf) == msg \o buf

\* a control frame taking the reader back to the start of a message
firstAfterControlResets(messageType, first) == TRUE

\* after a control frame: if messageType != noFrame { first = false }
firstAfterControl(messageType, first) ==
  IF messageType # noFrame THEN FALSE ELSE first

\* outcomes of one pass through the loop of ReadMessage
Blocked == [st |-> "block"]
Spinning(rest) == [st |-> "spin", rest |-> rest, out |-> << >>]
Panicking(rest) == [st |-> "panic", rest |-> rest, out |-> << >>]
Return(rest, out, mt, msg, err) ==
  [st |-> "return", rest |-> rest, out |-> out, mt |-> mt, msg |-> msg,
   err |-> err]
Again(rest, out, msg, messageType, first) ==
  [st |-> "again", rest |-> rest, out |-> out, msg |-> msg,
   messageType |-> messageType, first |-> first]

\* after handleControl: its error is returned, or goto again
afterControl(rest, loc, messageType, h) ==
  IF h.err # NilError THEN Return(rest, h.out, noFrame, << >>, h.err)
  ELSE Again(rest, h.out, loc.msg, messageType,
             firstAfterControl(messageType, loc.first))

\* the frame read and unmasked: a control frame is handled, a data frame is
\* appended to the message
dispatch(rest, loc, frameType, final, buf, slotFree, srv, keys) ==
  LET messageType == IF frameType \in {TextMessage, BinaryMessage}
                     THEN frameType ELSE loc.messageType
  IN IF isControl(frameType)
     THEN afterControl(rest, loc, messageType,
                       handleControl(frameType, buf, slotFree, srv, keys))
     ELSE IF ~final
     THEN Again(rest, << >>, appendMsg(loc.msg, buf), messageType, FALSE)
     ELSE Return(rest, << >>, messageType, appendMsg(loc.msg, buf), NilError)

\* b: the outcome of the payload loop; the payload is unmasked
afterPayload(b, loc, frameType, final, mask, key, slotFree, srv, keys) ==
  IF b.st = "block" THEN Blocked
  ELSE IF b.st = "eof"
  THEN Return(b.rest, << >>, noFrame, << >>, errUnexpectedEOF)
  ELSE IF b.st = "spin" THEN Spinning(b.rest)
  ELSE dispatch(b.rest, loc, frameType, final,
                IF mask THEN MaskBytes(b.buf, key) ELSE b.buf,
                slotFree, srv, keys)

\* k: the outcome of reading the mask key; the payload loop follows
afterMaskKey(k, length, loc, frameType, final, mask, ended, slotFree, srv, keys) ==
  IF k.st = "block" THEN Blocked
  ELSE IF k.st = "eof"
  THEN Return(k.rest, << >>, noFrame, << >>, errUnexpectedEOF)
  ELSE afterPayload(readPayload(k.rest, length, ended, << >>), loc,
                    frameType, final, mask, k.key, slotFree, srv, keys)

\* l: the outcome of the switch on length; the mask key follows
afterLength(l, loc, frameType, final, mask, ended, slotFree, srv, keys) ==
  IF l.st = "block" THEN Blocked
  ELSE IF l.st = "panic" THEN Panicking(l.rest)
  ELSE IF l.st = "eof"
  THEN Return(l.rest, << >>, noFrame, << >>, errUnexpectedEOF)
  ELSE afterMaskKey(readMaskKey(l.rest, mask, ended), l.length, loc,
                    frameType, final, mask, ended, slotFree, srv, keys)

\* the frame after its header passed the checks
readBody(s, loc, frameType, final, mask, len7, ended, slotFree, srv, keys) ==
  afterLength(readLength(s, len7, ended), loc, frameType, final, mask, ended,
              slotFree, srv, keys)

\* h: the outcome of c.read(2); the header is taken apart and checked; p[0]
\* or p[1] of a slice shorter than two bytes panics
checkHeader(s, h, loc, ended, slotFree, srv, keys) ==
  IF h.st = "block" THEN Blocked
  ELSE IF h.st = "eof"
  THEN Return(s, << >>, noFrame, << >>, errUnexpectedEOF)
  ELSE IF Len(h.p) < 2 THEN Panicking(Drop(s, Len(h.p)))
  ELSE LET frameType == h.p[1] % 16
           final == HasBit(h.p[1], finBit)
           rsv == HasBit(h.p[1], rsv1Bit) \/ HasBit(h.p[1], rsv2Bit)
                  \/ HasBit(h.p[1], rsv3Bit)
           mask == HasBit(h.p[2], maskBit)
           len7 == h.p[2] % 128
           errs == frameErrors(frameType, final, rsv, len7, loc.first)
       IN IF badMask(mask, srv)
          THEN Return(Drop(s, 2), << >>, noFrame, << >>, errBadMask)
          ELSE IF Len(errs) > 0
          THEN Return(Drop(s, 2),
                      handleProtocolError(Join(errs), slotFree, srv, keys),
                      noFrame, << >>, ProtocolError(Join(errs)))
          ELSE readBody(Drop(s, 2), loc, frameType, final, mask, len7,
                        ended, slotFree, srv, keys)

\* one pass from the label again of ReadMessage to its return or goto
readFrame(s, loc, ended, slotFree, srv, keys) ==
  checkHeader(s, read(s, 2, ended), loc, ended, slotFree, srv, keys)

\* the call of ReadMessage, up to the label again
ReadMessage(e) ==
  /\ conns[e]
  /\ rd[e].pc = "idle"
  /\ nops[e].reads < MaxReads
  /\ rd' = [rd EXCEPT ![e] = [Idle EXCEPT !.pc = "reading"]]
  /\ nops' = [nops EXCEPT ![e].reads = @ + 1]
  /\ last' = Call("ReadMessage", e, noFrame, << >>, << >>, << >>, NilError, FALSE)
  /\ UNCHANGED << hs, failed, conns, inp, eof, writer, writers, results, wrote >>

\* the bytes of s that a pass consumed, given what it left
Consumed(s, rest) == SubSeq(s, 1, Len(s) - Len(rest))

\* r: the outcome of one pass at end e; what it leaves in the connection
Pass(e, r) ==
  /\ r.st # "block"
  /\ inp' = [inp EXCEPT ![e] = r.rest,
                        ![Peer(e)] = IF conns[Peer(e)] THEN @ \o r.out ELSE @]
  /\ LET inb == rd[e].inb \o Consumed(inp[e], r.rest)
         outb == rd[e].outb \o r.out
     IN IF r.st = "return"
        THEN /\ rd' = [rd EXCEPT ![e] = Idle]
             /\ results' = [results EXCEPT ![e] = Append(@,
                   [mt |-> r.mt, msg |-> r.msg, err |-> r.err,
                    inb |-> inb, outb |-> outb])]
             /\ last' = Call("ReadFrame", e, r.mt, r.msg,
                             Consumed(inp[e], r.rest), r.out, r.err, TRUE)
        ELSE /\ rd' = [rd EXCEPT ![e] =
                   IF r.st \in {"spin", "panic"}
                   THEN [@ EXCEPT !.pc = r.st, !.inb = inb]
                   ELSE [pc |-> "reading", msg |-> r.msg,
                         messageType |-> r.messageType,
                         first |-> r.first, inb |-> inb, outb |-> outb]]
             /\ results' = results
             /\ last' = Call("ReadFrame", e, noFrame, << >>,
                             Consumed(inp[e], r.rest), r.out, NilError,
                             FALSE)

\* one pass through the loop of ReadMessage at end e
ReadFrame(e, keys) ==
  /\ conns[e]
  /\ rd[e].pc = "reading"
  /\ Pass(e, readFrame(inp[e], rd[e], StreamEnd(e), writer[e] = 0, isServer(e),
                       keys))
  /\ UNCHANGED << hs, failed, conns, eof, writer, writers, nops, wrote >>

(***************************************************************************)
(* The application writing on one connection, of either role               *)
(***************************************************************************)
InitWrite == \E e \in Ends : InitWith({e})

\* the control frames the application sends, and a call with a data opcode
CtlCalls ==
  { << PingMessage, Payload(125, 3) >>,
    << CloseMessage, FormatCloseMessage(CloseNormalClosure, << 98, 121, 101 >>) >>,
    << TextMessage, << >> >> }

\* number of writers the application takes in turn while it streams
MaxStreams == 1

NextWrite ==
  \/ \E e \in Ends :
       Len(writers[e]) < MaxStreams /\ NextWriter(e, TextMessage)
  \/ \E e \in Ends, i \in 1..MaxWriters, p \in AppPayloads :
       \E keys \in KeysOf(e) : Write(e, i, p, keys)
  \/ \E e \in Ends, i \in 1..MaxWriters : WriterClose(e, i)
  \/ \E e \in Ends : \E keys \in KeysOf(e) :
       WriteMessage(e, BinaryMessage, Payload(125, 7), keys)
  \/ \E e \in Ends, c \in CtlCalls : \E keys \in KeysOf(e) :
       WriteControl(e, c[1], c[2], KeyAt(keys, 1))

SpecWrite == InitWrite /\ [][NextWrite]_vars

(***************************************************************************)
(* The application taking and closing writers on one connection, closing   *)
(* some of them more than once                                             *)
(***************************************************************************)
NextSlot ==
  \/ \E e \in Ends : NextWriter(e, TextMessage)
  \/ \E e \in Ends, i \in 1..MaxWriters : \E keys \in KeysOf(e) :
       Write(e, i, Payload(1, 7), keys)
  \/ \E e \in Ends, i \in 1..MaxWriters : WriterClose(e, i)
  \/ \E e \in Ends : \E keys \in KeysOf(e) :
       WriteMessage(e, TextMessage, Payload(1, 7), keys)

SpecSlot == InitWrite /\ [][NextSlot]_vars

(***************************************************************************)
(* A hand-written peer: it puts frames on the wire towards the Conn at e   *)
(***************************************************************************)
PeerKey == << 55, 250, 33, 61 >>

\* a frame in the wire format ReadMessage parses
PeerFrame(fin, rsv, op, masked, payload) ==
  LET n == Len(payload)
      b0 == (IF fin THEN finBit ELSE 0) + rsv * rsv3Bit + op
      b1 == (IF masked THEN maskBit ELSE 0) + (IF n <= 125 THEN n ELSE 126)
  IN << b0, b1 >> \o (IF n <= 125 THEN << >> ELSE PutUint16(n))
     \o (IF masked THEN PeerKey \o MaskBytes(payload, PeerKey) ELSE payload)

sBye == << 98, 121, 101 >>
sAbc == << 97, 98, 99 >>

\* the payload the peer gives a data frame of each opcode
DataPayload(op) ==
  IF op = TextMessage THEN << 97, 98 >>
  ELSE IF op = BinaryMessage THEN << 0, 255, 7 >>
  ELSE << 100, 101 >>

ClosePayloads ==
  { << >>, PutUint16(1000) \o sBye, PutUint16(3000), << 3 >>,
    PutUint16(1005), PutUint16(999) \o sBye }

\* frames that respect the mask direction towards e
PeerFramesGood(e) ==
  {PeerFrame(f, 0, op, isServer(e), DataPayload(op)) :
     f \in BOOLEAN, op \in {ContMessage, TextMessage, BinaryMessage}}
  \cup {PeerFrame(TRUE, 0, PingMessage, isServer(e), sAbc),
        PeerFrame(TRUE, 0, PingMessage, isServer(e), << >>),
        PeerFrame(TRUE, 0, PongMessage, isServer(e), sBye)}
  \cup {PeerFrame(TRUE, 0, CloseMessage, isServer(e), c) : c \in ClosePayloads}

\* frames that break a rule of the header
PeerFramesBad(e) ==
  { PeerFrame(TRUE, 4, TextMessage, isServer(e), DataPayload(TextMessage)),
    PeerFrame(TRUE, 0, 3, isServer(e), << >>),
    PeerFrame(FALSE, 0, PingMessage, isServer(e), sAbc),
    PeerFrame(TRUE, 0, PingMessage, isServer(e), Payload(126, 3)),
    PeerFrame(TRUE, 0, TextMessage, ~isServer(e), DataPayload(TextMessage)),
    PeerFrame(FALSE, 0, PongMessage, ~isServer(e), sBye) }

PeerFrames(e) == PeerFramesGood(e) \cup PeerFramesBad(e)

\* the peer writes a frame once the Conn has read the previous one and waits
\* in ReadMessage for the next
PeerSend(e, b) ==
  /\ conns[e] /\ ~conns[Peer(e)]
  /\ ~eof[e]
  /\ inp[e] = << >>
  /\ rd[e].pc = "reading"
  /\ nops[e].peer < MaxPeerFrames
  /\ inp' = [inp EXCEPT ![e] = b]
  /\ nops' = [nops EXCEPT ![e].peer = @ + 1]
  /\ last' = Call("PeerSend", e, noFrame, << >>, << >>, << >>, NilError, FALSE)
  /\ UNCHANGED << hs, failed, conns, eof, writer, writers, rd, results, wrote >>

\* the peer closes its side of the stream
PeerClose(e) ==
  /\ conns[e] /\ ~conns[Peer(e)]
  /\ ~eof[e]
  /\ inp[e] = << >>
  /\ rd[e].pc = "reading"
  /\ eof' = [eof EXCEPT ![e] = TRUE]
  /\ last' = Call("PeerClose", e, noFrame, << >>, << >>, << >>, NilError, FALSE)
  /\ UNCHANGED << hs, failed, conns, inp, writer, writers, rd, results, nops, wrote >>

(***************************************************************************)
(* One connection reading what a hand-written peer sends, while the        *)
(* application may hold a writer                                           *)
(***************************************************************************)
\* number of writers the application takes, before it starts to read
MaxHeld == 1

Init == \E e \in Ends : InitWith({e})

\* the application reads on until ReadMessage returns an error, as the loops
\* of the example programs do
ReadsOn(e) ==
  IF Len(results[e]) = 0 THEN TRUE
  ELSE results[e][Len(results[e])].err = NilError

Next ==
  \/ \E e \in Ends : \E b \in PeerFrames(e) : PeerSend(e, b)
  \/ \E e \in Ends : PeerClose(e)
  \/ \E e \in Ends : ReadsOn(e) /\ ReadMessage(e)
  \/ \E e \in Ends : \E keys \in KeysOf(e) : ReadFrame(e, keys)
  \/ \E e \in Ends : /\ Len(writers[e]) < MaxHeld
                      /\ nops[e].reads = 0
                      /\ NextWriter(e, TextMessage)

Spec == Init /\ [][Next]_vars

(***************************************************************************)
(* A client-role and a server-role Conn over one connection                *)
(***************************************************************************)
InitRT == InitWith(Ends)

\* the payloads of the messages: empty, at the 125/126 boundary of the length
\* field, and longer than one and than two frames of the writer
RTLens == {0, 125, 126, 1031, BigLen}
RTPayloads == {Payload(n, 7) : n \in RTLens}

\* the messages go one way in a behaviour: from the client or from the server
NextRT ==
  \/ \E e \in Ends, mt \in AppTypes, p \in RTPayloads :
       \E keys \in KeysOf(e) :
         nops[Peer(e)].msgs = 0 /\ WriteMessage(e, mt, p, keys)
  \/ \E e \in Ends : ReadMessage(e)
  \/ \E e \in Ends : \E keys \in KeysOf(e) : ReadFrame(e, keys)

SpecRT == InitRT /\ [][NextRT]_vars

(***************************************************************************)
(* Scenario S3: one message of 70000 bytes sent with WriteMessage and read *)
(* at the other end                                                        *)
(***************************************************************************)
S3Len == 70000

NextS3 ==
  \/ \E e \in Ends : \E keys \in KeysOf(e) :
       /\ nops[Peer(e)].msgs = 0
       /\ WriteMessage(e, BinaryMessage, Payload(S3Len, 7), keys)
  \/ \E e \in Ends : ReadMessage(e)
  \/ \E e \in Ends : \E keys \in KeysOf(e) : ReadFrame(e, keys)

SpecS3 == InitRT /\ [][NextS3]_vars

(***************************************************************************)
(* One connection reading from a peer that keeps to the protocol, over a   *)
(* stream that ends or fails in the middle of a frame                      *)
(***************************************************************************)
\* the peer writes the bytes b and closes its side of the stream
PeerCut(e, b) ==
  /\ conns[e] /\ ~conns[Peer(e)]
  /\ ~eof[e] /\ ~failed[e]
  /\ inp[e] = << >>
  /\ rd[e].pc = "reading"
  /\ inp' = [inp EXCEPT ![e] = b]
  /\ eof' = [eof EXCEPT ![e] = TRUE]
  /\ last' = Call("PeerCut", e, noFrame, << >>, << >>, << >>, NilError, FALSE)
  /\ UNCHANGED << hs, failed, conns, writer, writers, rd, results, nops, wrote >>

\* ReadMessage at e waits for bytes
Waiting(e) ==
  /\ rd[e].pc = "reading"
  /\ readFrame(inp[e], rd[e], "open", writer[e] = 0, isServer(e),
               [i \in 1..NumKeys |-> PeerKey]).st = "block"

\* (c *Conn) Close() while ReadMessage waits: the read in flight, and every
\* later one, fails with an error that is not io.EOF
ConnClose(e) ==
  /\ conns[e] /\ ~conns[Peer(e)]
  /\ ~eof[e] /\ ~failed[e]
  /\ Waiting(e)
  /\ failed' = [failed EXCEPT ![e] = TRUE]
  /\ last' = Call("Close", e, noFrame, << >>, << >>, << >>, NilError, TRUE)
  /\ UNCHANGED << hs, conns, inp, eof, writer, writers, rd, results, nops, wrote >>

\* the opcode of the peer's next data frame: it starts a message or goes on
\* with the one it has begun
StreamOp(e) == IF rd[e].first THEN BinaryMessage ELSE ContMessage

\* frames the peer sends whole
WholeFrames(e) ==
  {PeerFrame(f, 0, StreamOp(e), isServer(e), sAbc) : f \in BOOLEAN}

\* the header of a frame of 70000 bytes, with the 64-bit length
LongHeader(e) ==
  << finBit + StreamOp(e), (IF isServer(e) THEN maskBit ELSE 0) + 127 >>
  \o PutUint64(70000)

\* frames of which the peer sends the first bytes only
CutFrames(e) ==
  {PeerFrame(TRUE, 0, StreamOp(e), isServer(e), p) :
     p \in {<< >>, sAbc, Payload(126, 3), Payload(BigLen, 3)}}
  \cup {LongHeader(e)}

\* where the stream stops: in the header, the extended length, the mask key,
\* the payload, and in a long payload with less than a buffer to go
CutPoints == {1, 3, 5, 7, 9, 20, 1100}

Truncated(e) ==
  UNION {{SubSeq(b, 1, k) : k \in {c \in CutPoints : c < Len(b)}} :
           b \in CutFrames(e)}

NextStream ==
  \/ \E e \in Ends : \E b \in WholeFrames(e) \cup Truncated(e) :
       ~failed[e] /\ PeerSend(e, b)
  \/ \E e \in Ends : \E b \in Truncated(e) : PeerCut(e, b)
  \/ \E e \in Ends : ~failed[e] /\ PeerClose(e)
  \/ \E e \in Ends : ConnClose(e)
  \/ \E e \in Ends : ReadsOn(e) /\ ReadMessage(e)
  \/ \E e \in Ends : \E keys \in KeysOf(e) : ReadFrame(e, keys)

SpecStream == Init /\ [][NextStream]_vars

(***************************************************************************)
(* The opening handshake of the client: Dial against a server that answers *)
(* the upgrade request with any response                                   *)
(***************************************************************************)
\* generateChallengeKey: 16 random bytes in base64; the model draws from
\* these
ChallengeKeys == {"dGhlIHNhbXBsZSBub25jZQ==", "AQIDBAUGBwgJCgsMDQ4PEA=="}

keyGUID == "258EAFA5-E914-47DA-95CA-C5AB0DC85B11"

\* computeAcceptKey: the SHA-1 of the challenge key followed by the GUID, in
\* base64; the digest is kept as the text it is taken of
computeAcceptKey(challengeKey) == [sha1 |-> << challengeKey, keyGUID >>]

\* the header values of a response; Absent: the response has no such header
Absent == [absent |-> TRUE]

\* the responses http.ReadResponse parses
Responses ==
  [status : {101, 200, 400},
   upgrade : {[v |-> "websocket"], [v |-> "h2c"], Absent},
   connection : {[v |-> "Upgrade"], [v |-> "close"], Absent},
   accept : {computeAcceptKey(k) : k \in ChallengeKeys} \cup {Absent}]

\* bytes that are no HTTP response
Malformed == [status |-> 0, upgrade |-> Absent, connection |-> Absent,
              accept |-> Absent]

\* Dial up to req.Write: the challenge key is drawn and the request sent
DialRequest(challengeKey) ==
  /\ hs.st = "none"
  /\ hs' = [st |-> "sent", key |-> challengeKey]
  /\ last' = Call("Dial", "client", noFrame, << >>, << >>, << >>, NilError,
                  FALSE)
  /\ UNCHANGED << failed, conns, inp, eof, writer, writers, rd, results, nops, wrote >>

\* Dial from http.ReadResponse on: a response that does not parse closes the
\* connection; every response that parses gives a client-role Conn
DialResponse(resp) ==
  /\ hs.st = "sent"
  /\ IF resp = Malformed
     THEN /\ hs' = [st |-> "done", key |-> hs.key, resp |-> resp,
                    conn |-> FALSE, closed |-> TRUE, err |-> "read response"]
          /\ UNCHANGED conns
     ELSE /\ hs' = [st |-> "done", key |-> hs.key, resp |-> resp,
                    conn |-> TRUE, closed |-> FALSE, err |-> "nil"]
          /\ conns' = [conns EXCEPT !["client"] = TRUE]
  /\ last' = Call("Dial", "client", noFrame, << >>, << >>, << >>, NilError,
                  TRUE)
  /\ UNCHANGED << failed, inp, eof, writer, writers, rd, results, nops, wrote >>

InitDial == InitWith({})

NextDial ==
  \/ \E k \in ChallengeKeys : DialRequest(k)
  \/ \E resp \in Responses \cup {Malformed} : DialResponse(resp)

SpecDial == InitDial /\ [][NextDial]_vars

(***************************************************************************)
(* Reading wire bytes as frames, by the layout of RFC 6455 section 5.2;    *)
(* used to state the properties, not by the model of the program           *)
(***************************************************************************)
NoFrame ==
  [hdr |-> FALSE, complete |-> FALSE, fin |-> FALSE, rsv |-> 0, op |-> noFrame,
   masked |-> FALSE, len7 |-> 0, ext |-> 0, length |-> 0, key |-> << >>,
   data |-> << >>, payload |-> << >>, size |-> 0]

WireFrame(s) ==
  IF Len(s) < 2 THEN [NoFrame EXCEPT !.size = Len(s)]
  ELSE
    LET len7 == s[2] % 128
        masked == s[2] >= 128
        ext == IF len7 = 126 THEN 2 ELSE IF len7 = 127 THEN 8 ELSE 0
        haveExt == Len(s) >= 2 + ext
        length == IF ~haveExt THEN 0
                  ELSE IF len7 = 126 THEN s[3] * 256 + s[4]
                  ELSE IF len7 = 127
                  THEN IF s[3] + s[4] + s[5] + s[6] > 0 \/ s[7] >= 128
                       THEN Huge
                       ELSE ((s[7] * 256 + s[8]) * 256 + s[9]) * 256 + s[10]
                  ELSE len7
        off == 2 + ext + (IF masked THEN 4 ELSE 0)
        complete == haveExt /\ length < Huge /\ Len(s) >= off + length
        key == IF masked /\ Len(s) >= off THEN SubSeq(s, off - 3, off) ELSE << >>
        data == IF complete THEN SubSeq(s, off + 1, off + length) ELSE << >>
    IN [hdr |-> TRUE, complete |-> complete, fin |-> s[1] >= 128,
        rsv |-> (s[1] \div 16) % 8, op |-> s[1] % 16, masked |-> masked,
        len7 |-> len7, ext |-> ext, length |-> length, key |-> key,
        data |-> data,
        payload |-> IF complete /\ masked
                    THEN [i \in 1..length |->
                            XorBytes(data[i], key[((i - 1) % 4) + 1])]
                    ELSE data,
        size |-> IF complete THEN off + length ELSE Len(s)]

RECURSIVE Frames(_)
Frames(s) ==
  IF Len(s) = 0 THEN << >>
  ELSE LET f == WireFrame(s)
       IN IF f.complete THEN << f >> \o Frames(Drop(s, f.size)) ELSE << f >>

IsData(f) == f.op \in {ContMessage, TextMessage, BinaryMessage}
IsCtl(f) == f.op \in {CloseMessage, PingMessage, PongMessage}
IsPing(f) == f.op = PingMessage
IsPong(f) == f.op = PongMessage
IsClose(f) == f.op = CloseMessage

\* a whole frame with no reserved bit and the mask bit that end e requires
WellFormed(f, e) == f.complete /\ f.rsv = 0 /\ f.masked = isServer(e)

\* a valid control frame of opcode op towards e
ValidCtl(f, e, op) ==
  WellFormed(f, e) /\ f.op = op /\ f.fin /\ f.len7 <= 125

RECURSIVE ConcatPayloads(_)
ConcatPayloads(fs) ==
  IF Len(fs) = 0 THEN << >> ELSE fs[1].payload \o ConcatPayloads(Tail(fs))

\* the calls of ReadMessage at e that returned, and the one that runs
Returned(e) == {results[e][k] : k \in 1..Len(results[e])}
Running(e) == rd[e].pc # "idle"

\* an error that is neither nil nor a CloseError
IsProtocolError(err) == err.kind \in {"protocol", "bad MASK"}

(***************************************************************************)
(* C2: a leading text or binary frame with FIN=0, then continuation        *)
(* frames, the last with FIN=1, with ping and pong frames anywhere in      *)
(* between, are returned by one ReadMessage call as (opcode of the leading *)
(* frame, the data payloads concatenated in arrival order, nil); a         *)
(* returned opcode is always text or binary.                               *)
(***************************************************************************)
Fragmented(F, e) ==
  LET D == SelectSeq(F, IsData)
  IN /\ \A i \in 1..Len(F) :
          /\ WellFormed(F[i], e)
          /\ IsData(F[i]) \/ ValidCtl(F[i], e, PingMessage)
             \/ ValidCtl(F[i], e, PongMessage)
     /\ Len(D) >= 2
     /\ D[1].op \in {TextMessage, BinaryMessage} /\ ~D[1].fin
     /\ \A j \in 2..Len(D) : D[j].op = ContMessage /\ (D[j].fin <=> j = Len(D))

C2_FragmentationTransparency ==
  \A e \in Ends :
    /\ \A r \in Returned(e) :
         /\ r.err = NilError => r.mt \in {TextMessage, BinaryMessage}
         /\ Fragmented(Frames(r.inb), e) =>
              LET D == SelectSeq(Frames(r.inb), IsData)
              IN r.err = NilError /\ r.mt = D[1].op /\ r.msg = ConcatPayloads(D)
    /\ Running(e) => ~Fragmented(Frames(rd[e].inb), e)

\* a message of two fragments with a ping in between was returned
C2_Witness ==
  \E e \in Ends : \E r \in Returned(e) :
    /\ Fragmented(Frames(r.inb), e)
    /\ \E i \in 1..Len(Frames(r.inb)) : IsPing(Frames(r.inb)[i])
    /\ r.msg = DataPayload(TextMessage) \o DataPayload(ContMessage)

(***************************************************************************)
(* C3: a continuation frame when no fragmented message is in progress, and *)
(* a text or binary frame while one is in progress, make ReadMessage       *)
(* return a protocol error and no message.                                 *)
(***************************************************************************)
OutOfSequence(F, j) ==
  /\ F[j].hdr
  /\ \/ F[j].op = ContMessage /\ ~\E i \in 1..(j - 1) : IsData(F[i])
     \/ F[j].op \in {TextMessage, BinaryMessage}
        /\ \E i \in 1..(j - 1) : IsData(F[i])

HasOutOfSequence(F) == \E j \in 1..Len(F) : OutOfSequence(F, j)

C3_FragmentSequencing ==
  \A e \in Ends :
    /\ \A r \in Returned(e) :
         HasOutOfSequence(Frames(r.inb)) =>
           r.mt = noFrame /\ r.msg = << >> /\ IsProtocolError(r.err)
    /\ Running(e) => ~HasOutOfSequence(Frames(rd[e].inb))

\* a data frame arrived after a FIN=0 data frame and a control frame
C3_Witness ==
  \E e \in Ends : \E r \in Returned(e) :
    LET F == Frames(r.inb)
    IN Len(F) = 3 /\ IsCtl(F[2]) /\ OutOfSequence(F, 3)
       /\ F[3].op = BinaryMessage /\ IsProtocolError(r.err)

(***************************************************************************)
(* C4: a received close frame with a valid code c and reason r is answered *)
(* with exactly one close frame carrying c and r, and ReadMessage returns  *)
(* CloseError{c, r} and no message; an empty close payload is reported as  *)
(* CloseError{1005, ""} and echoed with an empty payload.                  *)
(***************************************************************************)
AcceptedCloseCodes ==
  {1000, 1001, 1002, 1003, 1007, 1008, 1009, 1010, 1011, 1012, 1013}
  \cup 3000..4999

ValidClose(f, e) ==
  /\ ValidCtl(f, e, CloseMessage)
  /\ \/ Len(f.payload) = 0
     \/ Len(f.payload) >= 2 /\ Uint16(f.payload) \in AcceptedCloseCodes

EchoesClose(r, f, e) ==
  LET O == Frames(r.outb)
      echo == O[Len(O)]
  IN /\ r.mt = noFrame /\ r.msg = << >>
     /\ r.err = IF Len(f.payload) = 0
                THEN CloseError(1005, << >>)
                ELSE CloseError(Uint16(f.payload), Drop(f.payload, 2))
     /\ Len(SelectSeq(O, IsClose)) = 1
     /\ echo.complete /\ echo.fin /\ echo.op = CloseMessage /\ echo.rsv = 0
     /\ echo.masked = ~isServer(e)
     /\ echo.payload = f.payload

C4_CloseEcho ==
  \A e \in Ends : \A r \in Returned(e) :
    LET F == Frames(r.inb)
    IN (Len(F) > 0 /\ ValidClose(F[Len(F)], e)) => EchoesClose(r, F[Len(F)], e)

\* close(1000, "bye") was received and echoed
C4_Witness ==
  \E e \in Ends : \E r \in Returned(e) :
    LET F == Frames(r.inb)
    IN /\ Len(F) > 0 /\ ValidClose(F[Len(F)], e)
       /\ r.err = CloseError(1000, sBye)
       /\ Frames(r.outb)[Len(Frames(r.outb))].payload = PutUint16(1000) \o sBye

(***************************************************************************)
(* What ReadMessage wrote when it closed with a protocol error             *)
(***************************************************************************)
\* the last frame the call wrote is a close frame with code 1002
Sends1002(r, e) ==
  LET O == Frames(r.outb)
      c == O[Len(O)]
  IN /\ Len(O) > 0
     /\ c.complete /\ c.fin /\ c.op = CloseMessage
     /\ c.masked = ~isServer(e)
     /\ Len(c.payload) >= 2 /\ Uint16(c.payload) = CloseProtocolError

\* a control frame header with a length field above 125 or without FIN
BadCtl(f) == f.hdr /\ IsCtl(f) /\ (f.len7 > 125 \/ ~f.fin)

\* the valid pings among frames F towards e, and what answers them
ValidPings(F, e) == LET T(f) == ValidCtl(f, e, PingMessage) IN SelectSeq(F, T)

(***************************************************************************)
(* C6 (as claimed): with the writer slot free, a received control frame    *)
(* whose length field exceeds 125 or whose FIN bit is 0 makes ReadMessage  *)
(* write a close frame with code 1002 and return a protocol error, and no  *)
(* pong or close echo is sent for it.                                      *)
(***************************************************************************)
C6_ControlFrameConstraints ==
  \A e \in Ends : \A r \in Returned(e) :
    LET F == Frames(r.inb)
        O == Frames(r.outb)
    IN (writer[e] = 0 /\ Len(F) > 0 /\ BadCtl(F[Len(F)])) =>
         /\ IsProtocolError(r.err) /\ r.mt = noFrame
         /\ Sends1002(r, e)
         /\ Len(SelectSeq(O, IsClose)) = 1
         /\ Len(SelectSeq(O, IsPong)) = Len(ValidPings(F, e))

(***************************************************************************)
(* C7 (as claimed): a received frame that breaks any of the six rules of   *)
(* the frame header (reserved bits, opcode, control length and FIN, data   *)
(* frame only at message start, continuation only mid-fragment, mask bit)  *)
(* makes ReadMessage write a close frame with code 1002 before it returns  *)
(* the protocol error.                                                     *)
(***************************************************************************)
BreaksRule(F, j, e) ==
  /\ F[j].hdr
  /\ \/ F[j].rsv # 0
     \/ ~(IsData(F[j]) \/ IsCtl(F[j]))
     \/ BadCtl(F[j])
     \/ OutOfSequence(F, j)
     \/ F[j].masked # isServer(e)

C7_ValidationClosesWith1002 ==
  \A e \in Ends : \A r \in Returned(e) :
    LET F == Frames(r.inb)
    IN (\E j \in 1..Len(F) : BreaksRule(F, j, e)) =>
         IsProtocolError(r.err) /\ Sends1002(r, e)

(***************************************************************************)
(* C8: a frame with MASK=0 received by a server-role connection, or with   *)
(* MASK=1 by a client-role connection, makes ReadMessage return (noFrame,  *)
(* nil, error); its payload is never delivered nor appended to a message   *)
(* in progress, whatever its opcode.                                       *)
(***************************************************************************)
WrongMask(f, e) == f.hdr /\ f.masked # isServer(e)

HasWrongMask(F, e) == \E j \in 1..Len(F) : WrongMask(F[j], e)

C8_MaskDirection ==
  \A e \in Ends :
    /\ \A r \in Returned(e) :
         HasWrongMask(Frames(r.inb), e) =>
           r.mt = noFrame /\ r.msg = << >> /\ r.err # NilError
    /\ Running(e) => ~HasWrongMask(Frames(rd[e].inb), e)
    /\ (last.op = "ReadFrame" /\ last.e = e /\ WrongMask(WireFrame(last.inb), e))
         => last.returned /\ last.err # NilError /\ rd[e] = Idle

\* a frame with the wrong mask bit arrived while a message was in progress
C8_Witness ==
  \E e \in Ends : \E r \in Returned(e) :
    LET F == Frames(r.inb)
    IN Len(F) = 2 /\ F[1].op = TextMessage /\ ~F[1].fin /\ WrongMask(F[2], e)
       /\ r.err = errBadMask /\ r.msg = << >>

(***************************************************************************)
(* C9: for a valid ping with payload q ReadMessage writes exactly one pong *)
(* with payload q before it reads the next frame, does not return, and     *)
(* keeps reading; a pong makes it write nothing; the pongs of a call are   *)
(* in the order of its pings.                                              *)
(***************************************************************************)
AnswersPing(f, e) ==
  LET O == Frames(last.outb)
  IN /\ ~last.returned /\ rd[e].pc = "reading"
     /\ Len(O) = 1
     /\ O[1].complete /\ O[1].fin /\ O[1].rsv = 0 /\ O[1].op = PongMessage
     /\ O[1].masked = ~isServer(e)
     /\ O[1].payload = f.payload

PongsFollowPings(inb, outb, e) ==
  ConcatPayloads(SelectSeq(Frames(outb), IsPong))
    = ConcatPayloads(ValidPings(Frames(inb), e))
  /\ Len(SelectSeq(Frames(outb), IsPong)) = Len(ValidPings(Frames(inb), e))

C9_PingTransparent ==
  \A e \in Ends :
    /\ (last.op = "ReadFrame" /\ last.e = e) =>
         LET f == WireFrame(last.inb)
         IN /\ ValidCtl(f, e, PingMessage) => AnswersPing(f, e)
            /\ ValidCtl(f, e, PongMessage) =>
                 ~last.returned /\ rd[e].pc = "reading" /\ last.outb = << >>
    /\ \A r \in Returned(e) : PongsFollowPings(r.inb, r.outb, e)
    /\ Running(e) => PongsFollowPings(rd[e].inb, rd[e].outb, e)

\* ping("abc") was just answered, after an empty ping earlier in the call
C9_Witness ==
  \E e \in Ends :
    /\ last.op = "ReadFrame" /\ last.e = e
    /\ ValidCtl(WireFrame(last.inb), e, PingMessage)
    /\ WireFrame(last.inb).payload = sAbc
    /\ Len(ValidPings(Frames(rd[e].inb), e)) = 2
    /\ Frames(rd[e].outb)[2].payload = sAbc

(***************************************************************************)
(* C1: WriteMessage(o, p) at one end followed by ReadMessage at the other  *)
(* returns (o, p, nil), for text and binary, for payloads of length 0, at  *)
(* the 125/126 boundary and longer than the writer's buffer, from client   *)
(* to server and from server to client.                                    *)
(***************************************************************************)
C1_RoundTrip ==
  \A e \in Ends :
    LET w == wrote[Peer(e)]
    IN /\ Len(results[e]) <= Len(w)
       /\ \A k \in 1..Len(results[e]) :
            /\ results[e][k].mt = w[k].mt
            /\ results[e][k].msg = w[k].p
            /\ results[e][k].err = NilError
       /\ rd[e].pc # "spin"
       /\ (rd[e].pc = "reading" /\ Len(results[e]) < Len(w)) =>
            readFrame(inp[e], rd[e], StreamEnd(e), writer[e] = 0, isServer(e),
                      [i \in 1..NumKeys |-> PeerKey]).st \in {"again", "return"}

\* the server read a binary message of three frames that the client wrote
C1_Witness ==
  /\ Len(results["server"]) >= 1
  /\ results["server"][1].mt = BinaryMessage
  /\ results["server"][1].msg = Payload(BigLen, 7)
  /\ Len(Frames(results["server"][1].inb)) = 3

(***************************************************************************)
(* C5 (as claimed): NextWriter while the writer returned by the previous   *)
(* NextWriter call has not been closed returns "unclosed previous writer"  *)
(* and no writer; after that writer's Close, NextWriter succeeds.          *)
(***************************************************************************)
C5_SingleWriter ==
  \A e \in Ends :
    (last.op = "NextWriter" /\ last.e = e) =>
      LET n == Len(writers[e])
      IN /\ last.err = NilError =>
              n >= 1 /\ (n >= 2 => writers[e][n - 1].closed)
         /\ last.err # NilError =>
              last.err = errUnclosedWriter /\ n >= 1 /\ ~writers[e][n].closed

(***************************************************************************)
(* C10: every frame a client-role connection emits, through the message    *)
(* writer or through WriteControl with at most 125 bytes, has MASK=1 and a *)
(* 4-byte key, and its wire payload XORed with key[i mod 4] is the payload *)
(* the caller supplied; every frame of a server-role connection has        *)
(* MASK=0, no key, and the payload unchanged.                              *)
(***************************************************************************)
RECURSIVE SumSizes(_)
SumSizes(fs) == IF Len(fs) = 0 THEN 0 ELSE fs[1].size + SumSizes(Tail(fs))

EmitsFrames ==
  /\ last.op \in {"Write", "WriteMessage", "WriteControl"}
  /\ last.err = NilError
  /\ last.op = "WriteControl" => Len(last.p) <= 125

C10_MaskingSymmetry ==
  EmitsFrames =>
    LET F == Frames(last.outb)
    IN /\ Len(F) >= 1
       /\ SumSizes(F) = Len(last.outb)
       /\ \A i \in 1..Len(F) :
            /\ F[i].complete
            /\ F[i].masked = ~isServer(last.e)
            /\ F[i].masked => Len(F[i].key) = 4
            /\ ~F[i].masked => F[i].key = << >> /\ F[i].data = F[i].payload
            /\ F[i].size = 2 + F[i].ext + Len(F[i].key) + Len(F[i].data)
       /\ ConcatPayloads(F) = last.p

\* a client wrote a payload that went out as two masked frames
C10_Witness ==
  /\ EmitsFrames
  /\ last.op = "Write" /\ last.e = "client"
  /\ Len(Frames(last.outb)) = 2
  /\ Frames(last.outb)[2].masked /\ Len(Frames(last.outb)[2].payload) > 0

(***************************************************************************)
(* C11: every frame the message writer emits encodes its payload length    *)
(* with the smallest encoding that fits: the 7-bit field alone up to 125   *)
(* bytes, 126 and a 16-bit length for 126..65535 bytes, 127 and a 64-bit   *)
(* length only from 65536 bytes on; the encoded length is the number of    *)
(* payload bytes that follow.                                              *)
(***************************************************************************)
WriterEmits ==
  /\ last.op \in {"Write", "WriteMessage"}
  /\ last.err = NilError

MinimalLength(f) ==
  /\ f.complete
  /\ f.length <= 125 => f.len7 = f.length /\ f.ext = 0
  /\ (f.length >= 126 /\ f.length <= 65535) => f.len7 = 126 /\ f.ext = 2
  /\ f.len7 = 127 => f.length >= 65536
  /\ Len(f.data) = f.length

C11_HeaderMinimality ==
  WriterEmits =>
    LET F == Frames(last.outb)
    IN /\ Len(F) >= 1
       /\ SumSizes(F) = Len(last.outb)
       /\ \A i \in 1..Len(F) : MinimalLength(F[i])
       /\ ConcatPayloads(F) = last.p

\* one Write call went out as a frame of 1030 bytes with a 16-bit length and
\* a frame of one byte with the 7-bit length alone
C11_Witness ==
  /\ WriterEmits
  /\ last.op = "Write"
  /\ Len(Frames(last.outb)) = 2
  /\ Frames(last.outb)[1].len7 = 126 /\ Frames(last.outb)[1].length = 1030
  /\ Frames(last.outb)[2].len7 = 1 /\ Frames(last.outb)[2].ext = 0

(***************************************************************************)
(* C12 (as claimed): a client-role connection that sends a binary message  *)
(* of 70000 bytes with WriteMessage puts on the wire one frame: the header *)
(* 0x82 0xFF 0x00 0x00 0x00 0x00 0x00 0x01 0x11 0x70 (FIN=1, binary,       *)
(* MASK=1, 64-bit length 70000), the mask key, and the whole masked        *)
(* payload.                                                                *)
(***************************************************************************)
S3Header == << 130, 255, 0, 0, 0, 0, 0, 1, 17, 112 >>

C12_ScenarioS3 ==
  ( /\ last.op = "WriteMessage" /\ last.e = "client"
    /\ last.mt = BinaryMessage /\ Len(last.p) = S3Len
    /\ last.err = NilError ) =>
    LET f == WireFrame(last.outb)
    IN /\ SubSeq(last.outb, 1, 10) = S3Header
       /\ f.complete /\ f.fin /\ f.op = BinaryMessage /\ f.masked
       /\ f.len7 = 127 /\ f.length = S3Len
       /\ f.size = Len(last.outb)
       /\ f.payload = last.p

(***************************************************************************)
(* C13 (as claimed): when the stream reaches EOF where ReadMessage needs   *)
(* more bytes of a frame (header, extended length, mask key or payload, in *)
(* the first frame or a later fragment), ReadMessage returns (noFrame,     *)
(* nil, CloseError{1006, "unexpected EOF"}) and no part of a message.      *)
(***************************************************************************)
\* the pass of ReadMessage at e that just ran started on a frame of which
\* the stream does not hold all bytes
MidFrame(e) ==
  /\ last.op = "ReadFrame" /\ last.e = e
  /\ ~WireFrame(last.inb \o inp[e]).complete

C13_EOFIsAbnormalClosure ==
  \A e \in Ends :
    (MidFrame(e) /\ eof[e] /\ ~failed[e]) =>
      /\ last.returned
      /\ last.mt = noFrame /\ last.p = << >>
      /\ last.err = errUnexpectedEOF

(***************************************************************************)
(* C14 (as claimed): a received close frame with a payload of two or more  *)
(* bytes is echoed and returned as a CloseError exactly when its code is   *)
(* 1000, 1001, 1002, 1003, 1007..1013 or in 3000..4999; for every other    *)
(* code ReadMessage returns a protocol error that is no CloseError, echoes *)
(* nothing, and writes a close frame with code 1002.                       *)
(***************************************************************************)
\* a close frame towards e that carries a code
CodedClose(f, e) == ValidCtl(f, e, CloseMessage) /\ Len(f.payload) >= 2

\* the call rejected the close frame f: a protocol error, a close frame with
\* code 1002 on the wire and none with the code received
RejectsClose(r, f, e) ==
  /\ r.mt = noFrame /\ r.msg = << >>
  /\ r.err.kind = "protocol"
  /\ Sends1002(r, e)
  /\ \A k \in 1..Len(Frames(r.outb)) :
       IsClose(Frames(r.outb)[k]) =>
         Uint16(Frames(r.outb)[k].payload) = CloseProtocolError

C14_CloseCodeValidation ==
  \A e \in Ends : \A r \in Returned(e) :
    LET F == Frames(r.inb)
    IN (Len(F) > 0 /\ CodedClose(F[Len(F)], e)) =>
         IF Uint16(F[Len(F)].payload) \in AcceptedCloseCodes
         THEN EchoesClose(r, F[Len(F)], e)
         ELSE RejectsClose(r, F[Len(F)], e)

(***************************************************************************)
(* C15 (as claimed): Dial returns a client-role connection only if the     *)
(* response has status 101, Upgrade: websocket, Connection: Upgrade and a  *)
(* Sec-WebSocket-Accept equal to the accept key of the challenge key that  *)
(* Dial sent; for any other response it closes the socket and returns an   *)
(* error and no connection.                                                *)
(***************************************************************************)
GoodHandshake(resp, challengeKey) ==
  /\ resp.status = 101
  /\ resp.upgrade = [v |-> "websocket"]
  /\ resp.connection = [v |-> "Upgrade"]
  /\ resp.accept = computeAcceptKey(challengeKey)

C15_DialValidatesResponse ==
  hs.st = "done" =>
    IF GoodHandshake(hs.resp, hs.key)
    THEN hs.conn /\ conns["client"] /\ hs.err = "nil"
    ELSE ~hs.conn /\ ~conns["client"] /\ hs.closed /\ hs.err # "nil"

(***************************************************************************)
(* C16 (as claimed): over the lifetime of one message writer, from         *)
(* NextWriter(mt) to its Close with any number of Write calls in between,  *)
(* only the first frame it emits carries opcode mt, every later frame is a *)
(* continuation frame, and FIN=1 appears only on the last frame: the       *)
(* frames of one writer form one message.                                  *)
(***************************************************************************)
OneMessage(w) ==
  \A k \in 1..Len(w.sent) :
    /\ w.sent[k] % 16 = IF k = 1 THEN w.mt ELSE ContMessage
    /\ w.sent[k] >= 128 => k = Len(w.sent)
    /\ (w.closed /\ k = Len(w.sent)) => w.sent[k] >= 128

C16_WriterFrameSequencing ==
  \A e \in Ends : \A i \in 1..Len(writers[e]) : OneMessage(writers[e][i])

(***************************************************************************)
(* C17 (as claimed): when the stream returns a read error other than EOF   *)
(* (Close was called on the connection while ReadMessage was blocked)      *)
(* where ReadMessage needs more bytes of a frame, ReadMessage returns      *)
(* (noFrame, nil, err) with a non-nil err and consumes no further bytes.   *)
(***************************************************************************)
C17_ReadErrorsSurfaced ==
  \A e \in Ends :
    (MidFrame(e) /\ failed[e]) =>
      /\ last.returned
      /\ last.mt = noFrame /\ last.p = << >>
      /\ last.err # NilError
      /\ last.inb = << >>

(***************************************************************************)
(* C18 (as claimed): in every reachable state, after any sequence of       *)
(* NextWriter, Write, Close (also of a writer that was closed before) and  *)
(* WriteMessage calls on one connection, at most one writer returned by    *)
(* NextWriter has not been closed.                                         *)
(***************************************************************************)
Unclosed(e) == {i \in 1..Len(writers[e]) : ~writers[e][i].closed}

C18_OneWriterInFlight ==
  \A e \in Ends : Cardinality(Unclosed(e)) <= 1

(***************************************************************************)
(* C19 (as claimed): when ReadMessage detects a frame validation failure   *)
(* or an invalid close code while the application holds a message writer   *)
(* from NextWriter that it has not closed, a close frame with code 1002 is *)
(* written to the peer before ReadMessage returns the protocol error, and  *)
(* the writer slot is left as it was.                                      *)
(***************************************************************************)
\* the application holds the writer in the slot of e
HoldsWriter(e) == writer[e] # 0 /\ ~writers[e][writer[e]].closed

C19_CloseSentWhileStreaming ==
  \A e \in Ends : \A r \in Returned(e) :
    (HoldsWriter(e) /\ IsProtocolError(r.err)) => Sends1002(r, e)

====
